---- MODULE Spec2Model ----
(***************************************************************************)
(* Model of qlbridge's exec package: JoinKey.Run and JoinMerge.Run with its  *)
(* two ingest workers and its output row layout (src/exec/join.go), the     *)
(* Projection handler (src/exec/projection.go), and the value variants of   *)
(* src/value/value.go (NewValue, Nil, ToString, TimeValue's numbers).       *)
(*                                                                         *)
(* Go strings are sequences of one-character strings, so that building a    *)
(* composite key is a real concatenation.  A channel is a FIFO buffer of    *)
(* bounded capacity plus the number of close() calls made on it.            *)
(***************************************************************************)
EXTENDS Integers, Sequences, FiniteSets

\* ---------------------------------------------------------------- bounds
\* Messages an upstream producer sends on the input channel of JoinKey.
MaxMsgs == 2
\* Messages an upstream task sends on one input channel of JoinMerge.
MaxJoinMsgs == 3
\* Buffer capacity of a task's outbound channel.
ChanCap == 1

\* ----------------------------------------------------------------- state
VARIABLES
    jkpc,        \* JoinKey.Run: "off" | "select" | "send" | "done"
    joinNodes,   \* m.from.JoinNodes(): the join expressions (column names)
    jkCur,       \* the keyed message JoinKey.Run is sending on outCh
    jkSeen,      \* history: the messages JoinKey.Run received, as it left them
    inClosed,    \* history: JoinKey.Run saw its input channel closed
    mpc,         \* JoinMerge.Run: "off" | "start" | "spawnR" | "wait" | "range" | "send" | "done"
    lpc,         \* left ingest goroutine:  "idle" | "run" | "done"
    rpc,         \* right ingest goroutine: "idle" | "run" | "done"
    wg,          \* the sync.WaitGroup counter
    fatalErr,    \* "nil" | "emptykey" | "badtype"
    lh,          \* left hash table:  key -> sequence of messages
    rh,          \* right hash table: key -> sequence of messages
    leftRecv,    \* history: the messages received on leftIn
    rightRecv,   \* history: the messages received on rightIn
    leftClosed,  \* history: the left worker saw leftIn closed
    rightClosed, \* history: the right worker saw rightIn closed
    rangeTodo,   \* keys of lh the emission loop has not visited yet
    msgs,        \* joined rows of the current key not sent yet
    i,           \* the id counter of the emission loop
    msgOutCh,    \* TaskBase.msgOutCh: the buffered messages
    outCloses,   \* number of close(m.msgOutCh) calls
    sigCloses,   \* number of close(sigCh) calls
    panicked,    \* a goroutine panicked outside any recover: the process is gone
    ret,         \* what Run returned: "none" | "nil" | "err"
    delivered,   \* history: what the downstream consumer read from msgOutCh
    ppc,         \* Projection: "off" | "recv" | "send" | "done"
    columns,     \* m.sql.Columns
    pSeen,       \* history: the messages the handler was called with, as it left them
    outMsg,      \* the handler's outMsg, waiting in the select
    pRet,        \* history: what each handler call returned
    pInClosed,   \* history: the Run loop saw its input channel closed
    mvpc,        \* row layout of JoinMerge: "off" | "index" | "make" | "left" | "right" | "done"
    leftStmt,    \* m.leftStmt: its Alias and Source.Columns
    rightStmt,   \* m.rightStmt: its Alias and Source.Columns
    colIndex,    \* m.colIndex: "alias.key" -> ParentIndex
    outVals,     \* the output slice of the pair being merged
    vrecv,       \* value.go: the receiver of the method calls
    obs          \* value.go: what each method returned for vrecv

vars == <<jkpc, joinNodes, jkCur, jkSeen, inClosed, mpc, lpc, rpc, wg, fatalErr,
          lh, rh, leftRecv, rightRecv, leftClosed, rightClosed, rangeTodo, msgs,
          i, msgOutCh, outCloses, sigCloses, panicked, ret, delivered,
          ppc, columns, pSeen, outMsg, pRet, pInClosed, vrecv, obs,
          mvpc, leftStmt, rightStmt, colIndex, outVals>>

jkVars == <<jkpc, joinNodes, jkCur, jkSeen, inClosed>>
jmVars == <<mpc, lpc, rpc, wg, fatalErr, lh, rh, leftRecv, rightRecv,
            leftClosed, rightClosed, rangeTodo, msgs, i>>
pjVars == <<ppc, columns, pSeen, outMsg, pRet, pInClosed>>
vlVars == <<vrecv, obs>>
mvVars == <<mvpc, leftStmt, rightStmt, colIndex, outVals>>

SigClosed == sigCloses > 0

\* ------------------------------------------------------------ value.go
NUL == "NUL"
EmptyString == <<>>
DigitChar == <<"0", "1", "2", "3", "4", "5", "6", "7", "8", "9">>

StrV(s) == [type |-> "string", s |-> s, n |-> 0]
IntV(n) == [type |-> "int", s |-> <<>>, n |-> n]
NilV == [type |-> "nil", s |-> <<>>, n |-> 0]
\* A column the row does not hold.
Absent == [type |-> "absent", s |-> <<>>, n |-> 0]

RECURSIVE FormatDigits(_)
FormatDigits(n) ==
    IF n < 10 THEN <<DigitChar[n + 1]>>
    ELSE FormatDigits(n \div 10) \o <<DigitChar[(n % 10) + 1]>>

\* strconv.FormatInt(v, 10)
FormatInt(n) == IF n < 0 THEN <<"-">> \o FormatDigits(-n) ELSE FormatDigits(n)

\* Value.ToString of StringValue, IntValue, NilValue
ToString(v) ==
    CASE v.type = "string" -> v.s
      [] v.type = "int" -> FormatInt(v.n)
      [] OTHER -> EmptyString

\* ------------------------------------------------------ rows and messages
Cols == {"first", "last"}
ann == <<"a", "n", "n">>
lee == <<"l", "e", "e">>
RowValues == {StrV(EmptyString), StrV(ann), StrV(lee), IntV(12), Absent}
Rows == [Cols -> RowValues]
NodeLists == {<<>>, <<"first">>, <<"first", "last">>, <<"last", "first">>}

\* A *datasource.SqlDriverMessageMap (kind "map") or a message of another type.
MapMsg(n, row, key) == [kind |-> "map", n |-> n, row |-> row, key |-> key]
OtherMsg(n) == [kind |-> "other", n |-> n, row |-> [c \in Cols |-> Absent], key |-> EmptyString]
NoMsg == OtherMsg(0)

\* What upstream can send to JoinKey as its n-th message: no key is set yet.
JKInputs(n) == {MapMsg(n, r, EmptyString) : r \in Rows} \cup {OtherMsg(n)}

\* vm.Eval(mt, node) for an identity node: the column's value, ok iff the row holds it.
Eval(mt, node) == [val |-> mt.row[node], ok |-> mt.row[node].type # "absent"]

\* strings.Join(vals, sep)
RECURSIVE StringsJoin(_, _)
StringsJoin(vals, sep) ==
    IF Len(vals) = 0 THEN EmptyString
    ELSE IF Len(vals) = 1 THEN vals[1]
    ELSE vals[1] \o <<sep>> \o StringsJoin(Tail(vals), sep)

\* The loop of join.go:86-94: TRUE iff no join node fails to evaluate.
EvalAllOk(mt, nodes) == \A k \in 1..Len(nodes) : Eval(mt, nodes[k]).ok

\* vals[i] = joinVal.ToString()
JoinVals(mt, nodes) == [k \in 1..Len(nodes) |-> ToString(Eval(mt, nodes[k]).val)]

\* strings.Join with the empty separator: plain concatenation.
RECURSIVE Concat(_)
Concat(vals) == IF Len(vals) = 0 THEN EmptyString ELSE vals[1] \o Concat(Tail(vals))

\* The key of a build that joins the values with no delimiter at all.
M_JoinKeyOf_NoDelimiter(mt, nodes) == Concat(JoinVals(mt, nodes))

\* The key of a build that joins with a printable delimiter.
M_JoinKeyOf_Comma(mt, nodes) == StringsJoin(JoinVals(mt, nodes), ",")

\* key := strings.Join(vals, string(byte(0)))
JoinKeyOf(mt, nodes) == StringsJoin(JoinVals(mt, nodes), NUL)

\* mt.SetKeyHashed(key)
SetKeyHashed(mt, key) == [mt EXCEPT !.key = key]

\* ------------------------------------------------- TaskBase environment
\* TaskBase.Close(), or another task's fatal error: the one-shot signal is closed.
CloseSig ==
    /\ ~panicked
    /\ sigCloses = 0
    /\ sigCloses' = 1
    /\ UNCHANGED <<jkVars, mvVars, jmVars, pjVars, vlVars, msgOutCh, outCloses, panicked, ret, delivered>>

\* The downstream consumer reads one message from msgOutCh.
Consume ==
    /\ ~panicked
    /\ msgOutCh # <<>>
    /\ delivered' = Append(delivered, Head(msgOutCh))
    /\ msgOutCh' = Tail(msgOutCh)
    /\ UNCHANGED <<jkVars, mvVars, jmVars, pjVars, vlVars, outCloses, sigCloses, panicked, ret>>

\* ---------------------------------------------------------- JoinKey.Run
\* A Run that returns without the deferred close of its outbound channel.
M_JKReturn_NoClose(v) ==
    /\ jkpc' = "done"
    /\ ret' = v
    /\ UNCHANGED outCloses

\* return <v>, after which the deferred close(m.msgOutCh) runs.
JKReturn(v) ==
    /\ jkpc' = "done"
    /\ ret' = v
    /\ outCloses' = outCloses + 1

\* A Run that treats a failed join-node evaluation as fatal.
M_JKDrop_Fatal(msg) ==
    /\ jkSeen' = Append(jkSeen, msg)
    /\ jkpc' = "done"
    /\ ret' = "err"
    /\ outCloses' = outCloses + 1
    /\ UNCHANGED jkCur

\* A join node failed to evaluate: break msgTypeSwitch, back to the select.
JKDrop(msg) ==
    /\ jkSeen' = Append(jkSeen, msg)
    /\ UNCHANGED <<jkpc, jkCur, ret, outCloses>>

\* All join nodes evaluated: set the key, then go on to outCh <- mt.
JKKeyed(msg) ==
    LET mt == SetKeyHashed(msg, JoinKeyOf(msg, joinNodes)) IN
    /\ jkSeen' = Append(jkSeen, mt)
    /\ jkCur' = mt
    /\ jkpc' = "send"
    /\ UNCHANGED <<ret, outCloses>>

\* case <-m.SigChan(): return nil
JKSig ==
    /\ jkpc = "select" /\ ~panicked
    /\ SigClosed
    /\ JKReturn("nil")
    /\ UNCHANGED <<joinNodes, jkCur, jkSeen, inClosed, jmVars, mvVars, pjVars, vlVars, msgOutCh,
                   sigCloses, panicked, delivered>>

\* case msg, ok := <-inCh with !ok: return nil
JKInClosed ==
    /\ jkpc = "select" /\ ~panicked
    /\ inClosed' = TRUE
    /\ JKReturn("nil")
    /\ UNCHANGED <<joinNodes, jkCur, jkSeen, jmVars, mvVars, pjVars, vlVars, msgOutCh,
                   sigCloses, panicked, delivered>>

\* A Run whose type switch logs a message of another type and goes on.
M_JKRecv_SkipOther ==
    /\ jkpc = "select" /\ ~panicked
    /\ Len(jkSeen) < MaxMsgs
    /\ \E msg \in JKInputs(Len(jkSeen) + 1) :
         IF msg.kind = "map" /\ EvalAllOk(msg, joinNodes) THEN JKKeyed(msg) ELSE JKDrop(msg)
    /\ UNCHANGED <<joinNodes, inClosed, jmVars, mvVars, pjVars, vlVars, msgOutCh, sigCloses, panicked, delivered>>

\* case msg, ok := <-inCh with ok: the type switch on msg.
JKRecv ==
    /\ jkpc = "select" /\ ~panicked
    /\ Len(jkSeen) < MaxMsgs
    /\ \E msg \in JKInputs(Len(jkSeen) + 1) :
         IF msg.kind = "map"
         THEN IF EvalAllOk(msg, joinNodes) THEN JKKeyed(msg) ELSE JKDrop(msg)
         ELSE /\ JKReturn("err")
              /\ jkSeen' = Append(jkSeen, msg)
              /\ UNCHANGED jkCur
    /\ UNCHANGED <<joinNodes, inClosed, jmVars, mvVars, pjVars, vlVars, msgOutCh, sigCloses, panicked, delivered>>

\* A Run that goes back to its select without forwarding the keyed message.
M_JKSend_Drops ==
    /\ jkpc = "send" /\ ~panicked
    /\ jkpc' = "select"
    /\ UNCHANGED <<joinNodes, jkCur, jkSeen, inClosed, jmVars, mvVars, pjVars, vlVars, msgOutCh,
                   outCloses, sigCloses, panicked, ret, delivered>>

\* outCh <- mt
JKSend ==
    /\ jkpc = "send" /\ ~panicked
    /\ Len(msgOutCh) < ChanCap
    /\ msgOutCh' = Append(msgOutCh, jkCur)
    /\ jkpc' = "select"
    /\ UNCHANGED <<joinNodes, jkCur, jkSeen, inClosed, jmVars, mvVars, pjVars, vlVars, outCloses,
                   sigCloses, panicked, ret, delivered>>

\* The steps of JoinKey.Run itself.
JoinKeyRun == JKSig \/ JKInClosed \/ JKRecv \/ JKSend

\* -------------------------------------------------------- JoinMerge.Run
JMKeys == {EmptyString, <<"a">>, <<"b">>}
EmptyRow == [c \in Cols |-> Absent]

\* What an upstream task can send to JoinMerge as its n-th message on one side.
JMInputs(n) == {MapMsg(n, EmptyRow, k) : k \in JMKeys} \cup {OtherMsg(n)}

\* make(map[string][]*datasource.SqlDriverMessageMap)
EmptyMap == [k \in {} |-> <<>>]

\* A table that puts the newest row of a key first.
M_MapAppend_Prepend(h, key, mt) ==
    [k \in DOMAIN h \cup {key} |->
        IF k = key
        THEN (IF key \in DOMAIN h THEN <<mt>> \o h[key] ELSE <<mt>>)
        ELSE h[k]]

\* h[key] = append(h[key], mt)
MapAppend(h, key, mt) ==
    [k \in DOMAIN h \cup {key} |->
        IF k = key
        THEN (IF key \in DOMAIN h THEN Append(h[key], mt) ELSE <<mt>>)
        ELSE h[k]]

\* datasource.NewSqlDriverMessageMap(0, vals, m.colIndex) for the pair (lm, rm);
\* l and r record the pair the row's values were taken from.
NewJoined(lm, rm) == [kind |-> "joined", IdVal |-> 0, l |-> lm, r |-> rm]

\* The inner loop of mergeValueMessages: lm with every right message, in order.
RECURSIVE MergeOne(_, _)
MergeOne(lm, rmsgs) ==
    IF rmsgs = <<>> THEN <<>>
    ELSE <<NewJoined(lm, Head(rmsgs))>> \o MergeOne(lm, Tail(rmsgs))

\* A merge that pairs each left message with the first right message only.
RECURSIVE M_mergeValueMessages_FirstRight(_, _)
M_mergeValueMessages_FirstRight(lmsgs, rmsgs) ==
    IF lmsgs = <<>> THEN <<>>
    ELSE <<NewJoined(Head(lmsgs), Head(rmsgs))>>
         \o M_mergeValueMessages_FirstRight(Tail(lmsgs), rmsgs)

RECURSIVE mergeValueMessages(_, _)
mergeValueMessages(lmsgs, rmsgs) ==
    IF lmsgs = <<>> THEN <<>>
    ELSE MergeOne(Head(lmsgs), rmsgs) \o mergeValueMessages(Tail(lmsgs), rmsgs)

\* close(m.TaskBase.sigCh) in an ingest goroutine: closing a closed channel
\* panics, and no recover is deferred in that goroutine.
CloseSigCh ==
    /\ sigCloses' = sigCloses + 1
    /\ panicked' = (sigCloses > 0)

\* wg.Add(1); go func() { left worker }()
JMStart ==
    /\ mpc = "start" /\ ~panicked
    /\ wg' = wg + 1
    /\ lpc' = "run"
    /\ mpc' = "spawnR"
    /\ UNCHANGED <<jkVars, mvVars, pjVars, vlVars, rpc, fatalErr, lh, rh, leftRecv, rightRecv, leftClosed,
                   rightClosed, rangeTodo, msgs, i, msgOutCh, outCloses, sigCloses,
                   panicked, ret, delivered>>

\* wg.Add(1); go func() { right worker }()
JMSpawnR ==
    /\ mpc = "spawnR" /\ ~panicked
    /\ wg' = wg + 1
    /\ rpc' = "run"
    /\ mpc' = "wait"
    /\ UNCHANGED <<jkVars, mvVars, pjVars, vlVars, lpc, fatalErr, lh, rh, leftRecv, rightRecv, leftClosed,
                   rightClosed, rangeTodo, msgs, i, msgOutCh, outCloses, sigCloses,
                   panicked, ret, delivered>>

\* A Run that starts its emission loop without waiting for the workers.
M_JMWait_NoBarrier ==
    /\ mpc = "wait" /\ ~panicked
    /\ i' = 0
    /\ rangeTodo' = DOMAIN lh
    /\ mpc' = "range"
    /\ UNCHANGED <<jkVars, mvVars, pjVars, vlVars, lpc, rpc, wg, fatalErr, lh, rh, leftRecv, rightRecv,
                   leftClosed, rightClosed, msgs, msgOutCh, outCloses, sigCloses,
                   panicked, ret, delivered>>

\* wg.Wait() returns; i := uint64(0); the range over lh begins.
JMWait ==
    /\ mpc = "wait" /\ ~panicked
    /\ wg = 0
    /\ i' = 0
    /\ rangeTodo' = DOMAIN lh
    /\ mpc' = "range"
    /\ UNCHANGED <<jkVars, mvVars, pjVars, vlVars, lpc, rpc, wg, fatalErr, lh, rh, leftRecv, rightRecv,
                   leftClosed, rightClosed, msgs, msgOutCh, outCloses, sigCloses,
                   panicked, ret, delivered>>

\* for keyLeft, valLeft := range lh { if valRight, ok := rh[keyLeft]; ok { msgs := ... } }
JMRange ==
    /\ mpc = "range" /\ ~panicked
    /\ \E keyLeft \in rangeTodo :
         /\ rangeTodo' = rangeTodo \ {keyLeft}
         /\ IF keyLeft \in DOMAIN rh
            THEN /\ msgs' = mergeValueMessages(lh[keyLeft], rh[keyLeft])
                 /\ mpc' = "send"
            ELSE UNCHANGED <<msgs, mpc>>
    /\ UNCHANGED <<jkVars, mvVars, pjVars, vlVars, lpc, rpc, wg, fatalErr, lh, rh, leftRecv, rightRecv,
                   leftClosed, rightClosed, i, msgOutCh, outCloses, sigCloses,
                   panicked, ret, delivered>>

\* msg.IdVal = i; i++; outCh <- msg
JMSend ==
    /\ mpc = "send" /\ ~panicked
    /\ Len(msgOutCh) < ChanCap
    /\ msgOutCh' = Append(msgOutCh, [Head(msgs) EXCEPT !.IdVal = i])
    /\ i' = i + 1
    /\ msgs' = Tail(msgs)
    /\ mpc' = IF Tail(msgs) = <<>> THEN "range" ELSE "send"
    /\ UNCHANGED <<jkVars, mvVars, pjVars, vlVars, lpc, rpc, wg, fatalErr, lh, rh, leftRecv, rightRecv,
                   leftClosed, rightClosed, rangeTodo, outCloses, sigCloses,
                   panicked, ret, delivered>>

\* return nil, after which the deferred close(m.msgOutCh) runs.
JMReturn ==
    /\ mpc = "range" /\ ~panicked
    /\ rangeTodo = {}
    /\ mpc' = "done"
    /\ ret' = "nil"
    /\ outCloses' = outCloses + 1
    /\ UNCHANGED <<jkVars, mvVars, pjVars, vlVars, lpc, rpc, wg, fatalErr, lh, rh, leftRecv, rightRecv,
                   leftClosed, rightClosed, rangeTodo, msgs, i, msgOutCh, sigCloses,
                   panicked, delivered>>

\* ------------------------------------------------ left ingest goroutine
\* case <-m.SigChan(): return
LSig ==
    /\ lpc = "run" /\ ~panicked
    /\ SigClosed
    /\ lpc' = "done"
    /\ UNCHANGED <<jkVars, mvVars, pjVars, vlVars, mpc, rpc, wg, fatalErr, lh, rh, leftRecv, rightRecv,
                   leftClosed, rightClosed, rangeTodo, msgs, i, msgOutCh, outCloses,
                   sigCloses, panicked, ret, delivered>>

\* A left worker that calls wg.Done() on the closed input and keeps looping.
M_LInClosed_KeepsRunning ==
    /\ lpc = "run" /\ ~panicked
    /\ ~leftClosed
    /\ leftClosed' = TRUE
    /\ wg' = wg - 1
    /\ UNCHANGED <<jkVars, mvVars, pjVars, vlVars, mpc, lpc, rpc, fatalErr, lh, rh, leftRecv, rightRecv,
                   rightClosed, rangeTodo, msgs, i, msgOutCh, outCloses,
                   sigCloses, panicked, ret, delivered>>

\* case msg, ok := <-leftIn with !ok: wg.Done(); return
LInClosed ==
    /\ lpc = "run" /\ ~panicked
    /\ leftClosed' = TRUE
    /\ wg' = wg - 1
    /\ lpc' = "done"
    /\ UNCHANGED <<jkVars, mvVars, pjVars, vlVars, mpc, rpc, fatalErr, lh, rh, leftRecv, rightRecv,
                   rightClosed, rangeTodo, msgs, i, msgOutCh, outCloses,
                   sigCloses, panicked, ret, delivered>>

\* case msg, ok := <-leftIn with ok: the type switch on msg.
LRecv ==
    /\ lpc = "run" /\ ~panicked
    /\ Len(leftRecv) < MaxJoinMsgs
    /\ \E msg \in JMInputs(Len(leftRecv) + 1) :
         /\ leftRecv' = Append(leftRecv, msg)
         /\ IF msg.kind = "map" /\ msg.key # EmptyString
            THEN /\ lh' = MapAppend(lh, msg.key, msg)
                 /\ UNCHANGED <<fatalErr, sigCloses, panicked, lpc>>
            ELSE /\ fatalErr' = IF msg.kind = "map" THEN "emptykey" ELSE "badtype"
                 /\ CloseSigCh
                 /\ lpc' = "done"
                 /\ UNCHANGED lh
    /\ UNCHANGED <<jkVars, mvVars, pjVars, vlVars, mpc, rpc, wg, rh, rightRecv, leftClosed, rightClosed,
                   rangeTodo, msgs, i, msgOutCh, outCloses, ret, delivered>>

\* ----------------------------------------------- right ingest goroutine
\* case <-m.SigChan(): return
RSig ==
    /\ rpc = "run" /\ ~panicked
    /\ SigClosed
    /\ rpc' = "done"
    /\ UNCHANGED <<jkVars, mvVars, pjVars, vlVars, mpc, lpc, wg, fatalErr, lh, rh, leftRecv, rightRecv,
                   leftClosed, rightClosed, rangeTodo, msgs, i, msgOutCh, outCloses,
                   sigCloses, panicked, ret, delivered>>

\* A right worker that returns on the closed input without wg.Done().
M_RInClosed_NoDone ==
    /\ rpc = "run" /\ ~panicked
    /\ rightClosed' = TRUE
    /\ rpc' = "done"
    /\ UNCHANGED <<jkVars, mvVars, pjVars, vlVars, mpc, lpc, wg, fatalErr, lh, rh, leftRecv, rightRecv,
                   leftClosed, rangeTodo, msgs, i, msgOutCh, outCloses,
                   sigCloses, panicked, ret, delivered>>

\* case msg, ok := <-rightIn with !ok: wg.Done(); return
RInClosed ==
    /\ rpc = "run" /\ ~panicked
    /\ rightClosed' = TRUE
    /\ wg' = wg - 1
    /\ rpc' = "done"
    /\ UNCHANGED <<jkVars, mvVars, pjVars, vlVars, mpc, lpc, fatalErr, lh, rh, leftRecv, rightRecv,
                   leftClosed, rangeTodo, msgs, i, msgOutCh, outCloses,
                   sigCloses, panicked, ret, delivered>>

\* case msg, ok := <-rightIn with ok: the type switch on msg.
RRecv ==
    /\ rpc = "run" /\ ~panicked
    /\ Len(rightRecv) < MaxJoinMsgs
    /\ \E msg \in JMInputs(Len(rightRecv) + 1) :
         /\ rightRecv' = Append(rightRecv, msg)
         /\ IF msg.kind = "map" /\ msg.key # EmptyString
            THEN /\ rh' = MapAppend(rh, msg.key, msg)
                 /\ UNCHANGED <<fatalErr, sigCloses, panicked, rpc>>
            ELSE /\ fatalErr' = IF msg.kind = "map" THEN "emptykey" ELSE "badtype"
                 /\ CloseSigCh
                 /\ rpc' = "done"
                 /\ UNCHANGED rh
    /\ UNCHANGED <<jkVars, mvVars, pjVars, vlVars, mpc, lpc, wg, lh, leftRecv, leftClosed, rightClosed,
                   rangeTodo, msgs, i, msgOutCh, outCloses, ret, delivered>>

\* The steps of JoinMerge.Run itself, and of its two ingest goroutines.
JoinMergeRun == JMStart \/ JMSpawnR \/ JMWait \/ JMRange \/ JMSend \/ JMReturn
LeftWorker == LSig \/ LInClosed \/ LRecv
RightWorker == RSig \/ RInClosed \/ RRecv

\* ------------------------------------------------------------ value.NewValue
BoolV(b) == [type |-> "bool", s |-> <<>>, n |-> IF b THEN 1 ELSE 0]

\* Raw Go values a driver row holds: an int64, a []byte, and no entry at all.
GoInt(n) == [go |-> "int64", n |-> n]
GoBytes == [go |-> "bytes", n |-> 0]
GoMissing == [go |-> "missing", n |-> 0]

\* value.NewValue(goVal): int64 is lifted, a type outside the switch becomes NilValueVal.
NewValue(goVal) ==
    CASE goVal.go = "int64" -> IntV(goVal.n)
      [] OTHER -> NilV

\* ------------------------------------------------- Projection: its inputs
PKeys == {"a", "b"}

\* Expressions: an identity node, the comparison  k == 0, and the nil Node.
Ident(k) == [op |-> "ident", k |-> k]
EqZero(k) == [op |-> "eq0", k |-> k]
NoNode == [op |-> "nil", k |-> ""]

\* expr.Column
Column(as, pidx, star, guard, e) ==
    [As |-> as, ParentIndex |-> pidx, Star |-> star, Guard |-> guard, Expr |-> e]

Guards == {NoNode, EqZero("a"), Ident("b")}
ParentIndexes == {-1, 0}
Columns ==
    {Column(k, p, FALSE, g, Ident(k)) : k \in PKeys, p \in ParentIndexes, g \in Guards}
      \cup {Column("", p, TRUE, g, NoNode) : p \in ParentIndexes, g \in Guards}

ColA == Column("a", 0, FALSE, NoNode, Ident("a"))

\* sql.Columns: no column, one column, or the column a followed by one column.
ColumnLists == {<<>>} \cup {<<c>> : c \in Columns} \cup {<<ColA, c>> : c \in Columns}

\* The rows of a SqlDriverMessageMap (raw driver values) and of a ContextUrlValues.
MapRows == {r \in [PKeys -> {GoInt(0), GoInt(1), GoInt(2), GoBytes, GoMissing}] :
              /\ r["a"] \in {GoInt(0), GoInt(1), GoMissing}
              /\ r["b"] \in {GoInt(2), GoBytes, GoMissing}}
UrlRows == {r \in [PKeys -> {StrV(<<"0">>), StrV(<<"1">>), StrV(<<"2">>), Absent}] :
              /\ r["a"] \in {StrV(<<"0">>), StrV(<<"1">>)}
              /\ r["b"] \in {StrV(<<"2">>), Absent}}

PMsg(kind, n, row) == [kind |-> kind, n |-> n, row |-> row]
UnknownMsg(n) == PMsg("other", n, [k \in PKeys |-> GoMissing])

\* What upstream can send to Projection as its n-th message.
PInputs(n) == {PMsg("map", n, r) : r \in MapRows}
                \cup {PMsg("url", n, r) : r \in UrlRows}
                \cup {UnknownMsg(n)}

\* mt.Row(): the keys the row holds.
RowKeys(mt) ==
    IF mt.kind = "map" THEN {k \in PKeys : mt.row[k].go # "missing"}
    ELSE {k \in PKeys : mt.row[k].type # "absent"}

\* The reader's Get(k): the row's value as a Value.
Get(mt, k) == IF mt.kind = "map" THEN NewValue(mt.row[k]) ELSE mt.row[k]

\* vm.Eval(mt, node): (nil, false) when the identifier is not in the row.
EvalNode(mt, node) ==
    IF node.k \notin RowKeys(mt) THEN [val |-> Absent, ok |-> FALSE]
    ELSE IF node.op = "ident" THEN [val |-> Get(mt, node.k), ok |-> TRUE]
    ELSE [val |-> BoolV(ToString(Get(mt, node.k)) = <<"0">>), ok |-> TRUE]

\* ----------------------------------------- Projection.projectionEvaluator
\* datasource.NewContextSimple()
NewContextSimple == [k \in {} |-> NilV]

\* writeContext.Put(col, rctx, v): the value is stored under col.As.
Put(ctx, as, v) == [k \in DOMAIN ctx \cup {as} |-> IF k = as THEN v ELSE ctx[k]]

\* A guard that filters the column out whenever it is not the boolean true.
M_GuardFilters_NotTrue(mt, col) ==
    /\ col.Guard # NoNode
    /\ EvalNode(mt, col.Guard).val # BoolV(TRUE)

\* if col.Guard != nil { ... case value.BoolValue: if ifColVal.Val() == false { continue } }
GuardFilters(mt, col) ==
    /\ col.Guard # NoNode
    /\ EvalNode(mt, col.Guard).val = BoolV(FALSE)

\* A Star expansion that writes only the rows' first key.
M_PutRow_OneKey(ctx, mt) ==
    [k \in DOMAIN ctx \cup (RowKeys(mt) \cap {"a"}) |->
        IF k \in RowKeys(mt)
        THEN (IF mt.kind = "map" THEN NewValue(mt.row[k]) ELSE mt.row[k])
        ELSE ctx[k]]

\* for k, v := range mt.Row() { writeContext.Put(&expr.Column{As: k}, nil, ...) }
\* The keys are distinct, so the order of the range does not matter.
PutRow(ctx, mt) ==
    [k \in DOMAIN ctx \cup RowKeys(mt) |->
        IF k \in RowKeys(mt)
        THEN (IF mt.kind = "map" THEN NewValue(mt.row[k]) ELSE mt.row[k])
        ELSE ctx[k]]

\* v, ok := vm.Eval(mt, col.Expr); Put when ok.
PutExpr(ctx, mt, col) ==
    LET r == EvalNode(mt, col.Expr)
    IN  IF r.ok THEN Put(ctx, col.As, r.val) ELSE ctx

\* One turn of the loop over columns, for the body type of mt.
ProjectColumn(ctx, mt, col) ==
    IF mt.kind = "map" /\ col.ParentIndex < 0 THEN ctx
    ELSE IF GuardFilters(mt, col) THEN ctx
    ELSE IF col.Star THEN PutRow(ctx, mt)
    ELSE PutExpr(ctx, mt, col)

RECURSIVE ProjectColumns(_, _, _)
ProjectColumns(ctx, mt, cols) ==
    IF Len(cols) = 0 THEN ctx
    ELSE ProjectColumns(ProjectColumn(ctx, mt, Head(cols)), mt, Tail(cols))

\* The messages the handler sends: a ContextSimple, or the nil Message.
\* n is a history field: the input the message was built for.
CtxMsg(n, data) == [kind |-> "ctx", n |-> n, data |-> data]
NilMsg(n) == [kind |-> "nilmsg", n |-> n, data |-> NewContextSimple]

\* The type switch of the handler: outMsg after it.
Project(msg, cols) ==
    IF msg.kind \in {"map", "url"}
    THEN CtxMsg(msg.n, ProjectColumns(NewContextSimple, msg, cols))
    ELSE NilMsg(msg.n)

\* The Run loop ends: the deferred close(m.msgOutCh) runs.
PReturn ==
    /\ ppc' = "done"
    /\ ret' = "nil"
    /\ outCloses' = outCloses + 1

\* The Run loop takes a message from msgInCh and calls the handler, which
\* builds outMsg and reaches its select.
PRecv ==
    /\ ppc = "recv"
    /\ Len(pSeen) < MaxMsgs
    /\ \E msg \in PInputs(Len(pSeen) + 1) :
         /\ pSeen' = Append(pSeen, msg)
         /\ outMsg' = Project(msg, columns)
    /\ ppc' = "send"
    /\ UNCHANGED <<jkVars, mvVars, jmVars, vlVars, columns, pRet, pInClosed, msgOutCh,
                   outCloses, sigCloses, panicked, ret, delivered>>

\* A handler that returns false after its message went out.
M_PSend_ReturnsFalse ==
    /\ ppc = "send"
    /\ Len(msgOutCh) < ChanCap
    /\ msgOutCh' = Append(msgOutCh, outMsg)
    /\ pRet' = Append(pRet, FALSE)
    /\ PReturn
    /\ UNCHANGED <<jkVars, mvVars, jmVars, vlVars, columns, pSeen, outMsg, pInClosed,
                   sigCloses, panicked, delivered>>

\* case out <- outMsg: return true
PSend ==
    /\ ppc = "send"
    /\ Len(msgOutCh) < ChanCap
    /\ msgOutCh' = Append(msgOutCh, outMsg)
    /\ pRet' = Append(pRet, TRUE)
    /\ ppc' = "recv"
    /\ UNCHANGED <<jkVars, mvVars, jmVars, vlVars, columns, pSeen, outMsg, pInClosed,
                   outCloses, sigCloses, panicked, ret, delivered>>

\* case <-m.SigChan(): return false; the Run loop ends on the false.
PSendSig ==
    /\ ppc = "send"
    /\ SigClosed
    /\ pRet' = Append(pRet, FALSE)
    /\ PReturn
    /\ UNCHANGED <<jkVars, mvVars, jmVars, vlVars, columns, pSeen, outMsg, pInClosed,
                   msgOutCh, sigCloses, panicked, delivered>>

\* The Run loop finds msgInCh closed.
PInClosed ==
    /\ ppc = "recv"
    /\ pInClosed' = TRUE
    /\ PReturn
    /\ UNCHANGED <<jkVars, mvVars, jmVars, vlVars, columns, pSeen, outMsg, pRet,
                   msgOutCh, sigCloses, panicked, delivered>>

\* The Run loop finds sigCh closed.
PSig ==
    /\ ppc = "recv"
    /\ SigClosed
    /\ PReturn
    /\ UNCHANGED <<jkVars, mvVars, jmVars, vlVars, columns, pSeen, outMsg, pRet, pInClosed,
                   msgOutCh, sigCloses, panicked, delivered>>

ProjectionRun == PRecv \/ PSend \/ PSendSig \/ PInClosed \/ PSig

\* ------------------------------------------------- value.go: the variants
\* NumberValue (n stands for the float), StringsValue, SliceValue, MapIntValue
\* (s lists its entries), StructValue (n = 0: the nil *emptyStruct), ErrorValue.
NumberV(n) == [type |-> "number", s |-> <<>>, n |-> n]
StringsV(l) == [type |-> "strings", s |-> l, n |-> 0]
SliceV(l) == [type |-> "slice", s |-> l, n |-> 0]
MapIntV(l) == [type |-> "mapint", s |-> l, n |-> 0]
StructV(p) == [type |-> "struct", s |-> <<>>, n |-> p]
ErrV(msg) == [type |-> "error", s |-> msg, n |-> 0]

\* int64 arithmetic on sign and magnitude; the magnitude is a sequence of
\* three-digit groups, lowest first, without leading zero groups.
Big(neg, mag) == [neg |-> neg, mag |-> mag]
BigZero == Big(FALSE, <<>>)

RECURSIVE Trim(_)
Trim(mag) ==
    IF Len(mag) = 0 THEN mag
    ELSE IF mag[Len(mag)] = 0 THEN Trim(SubSeq(mag, 1, Len(mag) - 1))
    ELSE mag

Group(mag, k) == IF k <= Len(mag) THEN mag[k] ELSE 0

RECURSIVE AddGroups(_, _, _, _)
AddGroups(a, b, k, carry) ==
    IF k > Len(a) /\ k > Len(b)
    THEN (IF carry = 0 THEN <<>> ELSE <<carry>>)
    ELSE LET t == Group(a, k) + Group(b, k) + carry
         IN  <<t % 1000>> \o AddGroups(a, b, k + 1, t \div 1000)

AddMag(a, b) == AddGroups(a, b, 1, 0)

RECURSIVE SubGroups(_, _, _, _)
SubGroups(a, b, k, borrow) ==
    IF k > Len(a) THEN <<>>
    ELSE LET t == Group(a, k) - Group(b, k) - borrow
         IN  IF t < 0 THEN <<t + 1000>> \o SubGroups(a, b, k + 1, 1)
             ELSE <<t>> \o SubGroups(a, b, k + 1, 0)

\* a - b for a >= b
SubMag(a, b) == Trim(SubGroups(a, b, 1, 0))

RECURSIVE LessFrom(_, _, _)
LessFrom(a, b, k) ==
    IF k = 0 THEN FALSE
    ELSE IF a[k] # b[k] THEN a[k] < b[k]
    ELSE LessFrom(a, b, k - 1)

LessMag(a, b) ==
    IF Len(a) # Len(b) THEN Len(a) < Len(b) ELSE LessFrom(a, b, Len(a))

BigAdd(x, y) ==
    IF x.neg = y.neg THEN Big(x.neg, AddMag(x.mag, y.mag))
    ELSE IF x.mag = y.mag THEN BigZero
    ELSE IF LessMag(x.mag, y.mag) THEN Big(y.neg, SubMag(y.mag, x.mag))
    ELSE Big(x.neg, SubMag(x.mag, y.mag))

\* 2^63 and 2^64
TwoTo63 == <<808, 775, 854, 36, 372, 223, 9>>
TwoTo64 == <<616, 551, 709, 73, 744, 446, 18>>

\* The int64 a result wraps to.
RECURSIVE WrapInt64(_)
WrapInt64(x) ==
    IF ~x.neg /\ ~LessMag(x.mag, TwoTo63) THEN WrapInt64(BigAdd(x, Big(TRUE, TwoTo64)))
    ELSE IF x.neg /\ LessMag(TwoTo63, x.mag) THEN WrapInt64(BigAdd(x, Big(FALSE, TwoTo64)))
    ELSE x

\* x * 1e9, not wrapped
TimesE9(x) == IF x.mag = <<>> THEN BigZero ELSE Big(x.neg, <<0, 0, 0>> \o x.mag)

\* x / 1e6: Go's integer division truncates toward zero.
QuoE6(x) ==
    IF Len(x.mag) <= 2 THEN BigZero
    ELSE Big(x.neg, SubSeq(x.mag, 3, Len(x.mag)))

\* int64(n) for 0 <= n < 1e9
FromNat(n) == Big(FALSE, Trim(<<n % 1000, (n \div 1000) % 1000, n \div 1000000>>))

Pad3(n) == <<DigitChar[(n \div 100) + 1], DigitChar[((n \div 10) % 10) + 1], DigitChar[(n % 10) + 1]>>

RECURSIVE PadGroups(_, _)
PadGroups(mag, k) == IF k = 0 THEN <<>> ELSE Pad3(mag[k]) \o PadGroups(mag, k - 1)

\* strconv.FormatInt(x, 10)
FormatInt64(x) ==
    IF x.mag = <<>> THEN <<"0">>
    ELSE (IF x.neg THEN <<"-">> ELSE <<>>)
           \o FormatDigits(x.mag[Len(x.mag)]) \o PadGroups(x.mag, Len(x.mag) - 1)

\* A time.Time: s is the second count since the Unix epoch (t.unixSec(), an
\* int64), n the nanoseconds within the second.
TimeV(sec, nsec) == [type |-> "time", s |-> sec, n |-> nsec]

\* time.Time{}: January 1 of year 1, 62135596800 s before the epoch.
ZeroTime == TimeV(Big(TRUE, <<800, 596, 135, 62>>), 0)

\* Times: the epoch, 1.234 s and 1 ns around it, a day of 2026, the zero
\* time, and the first whole second after the year 2262 limit.
Times ==
    << TimeV(BigZero, 0),
       TimeV(Big(FALSE, <<1>>), 234000000),
       TimeV(Big(TRUE, <<1>>), 999999999),
       TimeV(Big(TRUE, <<2>>), 998500000),
       TimeV(Big(FALSE, <<0, 700, 793, 1>>), 500000),
       ZeroTime,
       TimeV(Big(FALSE, <<37, 372, 223, 9>>), 0) >>

\* The receivers the methods are called on.
ValueSamples ==
    << NumberV(0), NumberV(1), IntV(0), IntV(12), BoolV(TRUE), BoolV(FALSE),
       StrV(EmptyString), StrV(ann), StringsV(<<>>), StringsV(<<ann>>),
       SliceV(<<>>), SliceV(<<IntV(0)>>), MapIntV(<<>>), MapIntV(<<<<ann, 1>>>>),
       StructV(0), StructV(1), ErrV(EmptyString), ErrV(lee), NilV >>
      \o Times

\* m.V.IsZero()
IsZero(m) == m = ZeroTime

\* Nil() of each variant
Nil(m) ==
    CASE m.type = "number" -> FALSE
      [] m.type = "int" -> FALSE
      [] m.type = "bool" -> FALSE
      [] m.type = "string" -> Len(m.s) = 0
      [] m.type = "strings" -> Len(m.s) = 0
      [] m.type = "slice" -> Len(m.s) = 0
      [] m.type = "mapint" -> Len(m.s) = 0
      [] m.type = "struct" -> FALSE
      [] m.type = "time" -> IsZero(m)
      [] m.type = "error" -> FALSE
      [] m.type = "nil" -> TRUE

\* m.V.UnixNano(): (t.unixSec())*1e9 + int64(t.nsec()) in int64
UnixNano(m) == WrapInt64(BigAdd(TimesE9(m.s), FromNat(m.n)))

\* TimeValue.Int(): m.V.UnixNano() / 1e6
TimeInt(m) == QuoE6(UnixNano(m))

\* TimeValue.Float(): float64(m.V.UnixNano() / 1e6); the quotient is below
\* 2^53 in magnitude, so the conversion is exact.
TimeFloat(m) == QuoE6(UnixNano(m))

\* TimeValue.ToString(): strconv.FormatInt(m.Int(), 10)
TimeToString(m) == FormatInt64(TimeInt(m))

\* The result of one method call on vrecv is recorded.
Observe(method, result) ==
    /\ obs' = [k \in DOMAIN obs \cup {method} |-> IF k = method THEN result ELSE obs[k]]
    /\ UNCHANGED <<jkVars, mvVars, jmVars, pjVars, vrecv, msgOutCh, outCloses, sigCloses,
                   panicked, ret, delivered>>

\* vrecv.Nil()
VNil == "Nil" \notin DOMAIN obs /\ Observe("Nil", Nil(vrecv))

\* vrecv.Int() of a TimeValue
VInt ==
    /\ vrecv.type = "time" /\ "Int" \notin DOMAIN obs
    /\ Observe("Int", TimeInt(vrecv))

\* vrecv.Float() of a TimeValue
VFloat ==
    /\ vrecv.type = "time" /\ "Float" \notin DOMAIN obs
    /\ Observe("Float", TimeFloat(vrecv))

\* vrecv.ToString() of a TimeValue, StringValue, IntValue, ErrorValue or NilValue
VToString ==
    /\ vrecv.type \in {"time", "string", "int", "error", "nil"}
    /\ "ToString" \notin DOMAIN obs
    /\ Observe("ToString", IF vrecv.type = "time" THEN TimeToString(vrecv) ELSE ToString(vrecv))

\* ------------------------------------------ JoinMerge: the output row layout
\* expr.Column as the join reads it: Key(), SourceIndex, ParentIndex.
JoinColumn(key, sidx, pidx) == [Key |-> key, SourceIndex |-> sidx, ParentIndex |-> pidx]

ColumnKeys == {<<"x">>, <<"y">>}
SourceIndexes == {0, 1}
JoinParentIndexes == {-1, 0, 1, 2}
JoinColumns ==
    {JoinColumn(k, si, pi) : k \in ColumnKeys, si \in SourceIndexes, pi \in JoinParentIndexes}

\* An expr.SqlSource: its Alias and its Source.Columns.
SqlSource(alias, cols) == [Alias |-> alias, Columns |-> cols]

\* The left source has up to two columns, the right one up to one; the right
\* alias may be the left one.
LeftSources ==
    {SqlSource(<<"l">>, cols) :
       cols \in {<<>>} \cup {<<c>> : c \in JoinColumns}
                  \cup {<<c, d>> : c \in JoinColumns, d \in JoinColumns}}
RightSources ==
    {SqlSource(a, cols) :
       a \in {<<"l">>, <<"r">>}, cols \in {<<>>} \cup {<<c>> : c \in JoinColumns}}

\* lm.Values() and rm.Values() of the pair being merged
LeftValues == <<"l0", "l1">>
RightValues == <<"r0", "r1">>

\* A position of the output slice nothing was written to.
NilDriverValue == "nil"

\* m.colIndex[stmt.Alias+"."+col.Key()] = col.ParentIndex for every column of stmt
RECURSIVE IndexColumns(_, _, _)
IndexColumns(idx, alias, cols) ==
    IF cols = <<>> THEN idx
    ELSE LET name == alias \o <<".">> \o Head(cols).Key
         IN  IndexColumns([k \in DOMAIN idx \cup {name} |->
                             IF k = name THEN Head(cols).ParentIndex ELSE idx[k]],
                          alias, Tail(cols))

\* make([]driver.Value, n)
MakeValues(n) == [k \in 1..n |-> NilDriverValue]

\* A valIndexing that copies the first source value whatever SourceIndex is.
RECURSIVE M_valIndexing_FirstValue(_, _, _)
M_valIndexing_FirstValue(valOut, valSource, cols) ==
    IF cols = <<>> THEN valOut
    ELSE LET col == Head(cols)
             next == IF col.ParentIndex < 0 \/ col.ParentIndex >= Len(valOut) THEN valOut
                     ELSE [valOut EXCEPT ![col.ParentIndex + 1] = valSource[1]]
         IN  M_valIndexing_FirstValue(next, valSource, Tail(cols))

\* JoinMerge.valIndexing; Go slices count from 0, sequences from 1.
RECURSIVE valIndexing(_, _, _)
valIndexing(valOut, valSource, cols) ==
    IF cols = <<>> THEN valOut
    ELSE LET col == Head(cols)
             next == IF col.ParentIndex < 0 THEN valOut
                     ELSE IF col.ParentIndex >= Len(valOut) THEN valOut
                     ELSE [valOut EXCEPT ![col.ParentIndex + 1] = valSource[col.SourceIndex + 1]]
         IN  valIndexing(next, valSource, Tail(cols))

\* The two loops at the start of Run that fill m.colIndex.
BuildColIndex ==
    /\ mvpc = "index"
    /\ colIndex' = IndexColumns(IndexColumns(colIndex, leftStmt.Alias, leftStmt.Columns),
                                rightStmt.Alias, rightStmt.Columns)
    /\ mvpc' = "make"
    /\ UNCHANGED <<jkVars, jmVars, pjVars, vlVars, leftStmt, rightStmt, outVals, msgOutCh,
                   outCloses, sigCloses, panicked, ret, delivered>>

\* vals := make([]driver.Value, len(m.colIndex))
MakeVals ==
    /\ mvpc = "make"
    /\ outVals' = MakeValues(Cardinality(DOMAIN colIndex))
    /\ mvpc' = "left"
    /\ UNCHANGED <<jkVars, jmVars, pjVars, vlVars, leftStmt, rightStmt, colIndex, msgOutCh,
                   outCloses, sigCloses, panicked, ret, delivered>>

\* vals = m.valIndexing(vals, lm.Values(), m.leftStmt.Source.Columns)
IndexLeft ==
    /\ mvpc = "left"
    /\ outVals' = valIndexing(outVals, LeftValues, leftStmt.Columns)
    /\ mvpc' = "right"
    /\ UNCHANGED <<jkVars, jmVars, pjVars, vlVars, leftStmt, rightStmt, colIndex, msgOutCh,
                   outCloses, sigCloses, panicked, ret, delivered>>

\* vals = m.valIndexing(vals, rm.Values(), m.rightStmt.Source.Columns); the row is built.
IndexRight ==
    /\ mvpc = "right"
    /\ outVals' = valIndexing(outVals, RightValues, rightStmt.Columns)
    /\ mvpc' = "done"
    /\ UNCHANGED <<jkVars, jmVars, pjVars, vlVars, leftStmt, rightStmt, colIndex, msgOutCh,
                   outCloses, sigCloses, panicked, ret, delivered>>

\* -------------------------------------------------------- specifications
InitTaskBase ==
    /\ msgOutCh = <<>>
    /\ outCloses = 0
    /\ sigCloses = 0
    /\ panicked = FALSE
    /\ ret = "none"
    /\ delivered = <<>>

JoinKeyIdle ==
    /\ jkpc = "off"
    /\ joinNodes = <<>>
    /\ jkCur = NoMsg
    /\ jkSeen = <<>>
    /\ inClosed = FALSE

JoinMergeIdle ==
    /\ mpc = "off"
    /\ lpc = "idle"
    /\ rpc = "idle"
    /\ wg = 0
    /\ fatalErr = "nil"
    /\ lh = EmptyMap
    /\ rh = EmptyMap
    /\ leftRecv = <<>>
    /\ rightRecv = <<>>
    /\ leftClosed = FALSE
    /\ rightClosed = FALSE
    /\ rangeTodo = {}
    /\ msgs = <<>>
    /\ i = 0

ProjectionIdle ==
    /\ ppc = "off"
    /\ columns = <<>>
    /\ pSeen = <<>>
    /\ outMsg = NilMsg(0)
    /\ pRet = <<>>
    /\ pInClosed = FALSE

ValueIdle ==
    /\ vrecv = NilV
    /\ obs = <<>>

MergeValuesIdle ==
    /\ mvpc = "off"
    /\ leftStmt = SqlSource(<<>>, <<>>)
    /\ rightStmt = SqlSource(<<>>, <<>>)
    /\ colIndex = <<>>
    /\ outVals = <<>>

\* NewJoinKey(from, conf), about to Run.
InitJoinKey ==
    /\ InitTaskBase
    /\ MergeValuesIdle
    /\ JoinMergeIdle
    /\ ProjectionIdle
    /\ ValueIdle
    /\ jkpc = "select"
    /\ joinNodes \in NodeLists
    /\ jkCur = NoMsg
    /\ jkSeen = <<>>
    /\ inClosed = FALSE

\* NewJoinNaiveMerge(ltask, rtask, lfrom, rfrom, conf), about to Run.
InitJoinMerge ==
    /\ InitTaskBase
    /\ MergeValuesIdle
    /\ JoinKeyIdle
    /\ ProjectionIdle
    /\ ValueIdle
    /\ mpc = "start"
    /\ lpc = "idle"
    /\ rpc = "idle"
    /\ wg = 0
    /\ fatalErr = "nil"
    /\ lh = EmptyMap
    /\ rh = EmptyMap
    /\ leftRecv = <<>>
    /\ rightRecv = <<>>
    /\ leftClosed = FALSE
    /\ rightClosed = FALSE
    /\ rangeTodo = {}
    /\ msgs = <<>>
    /\ i = 0

\* NewProjection(sqlSelect), about to Run.
InitProjection ==
    /\ InitTaskBase
    /\ MergeValuesIdle
    /\ JoinKeyIdle
    /\ JoinMergeIdle
    /\ ValueIdle
    /\ ppc = "recv"
    /\ columns \in ColumnLists
    /\ pSeen = <<>>
    /\ outMsg = NilMsg(0)
    /\ pRet = <<>>
    /\ pInClosed = FALSE

\* A value of value.go, before any method call.
InitValue ==
    /\ InitTaskBase
    /\ MergeValuesIdle
    /\ JoinKeyIdle
    /\ JoinMergeIdle
    /\ ProjectionIdle
    /\ \E k \in 1..Len(ValueSamples) : vrecv = ValueSamples[k]
    /\ obs = <<>>

\* NewJoinNaiveMerge(...) over two sources, before the column index is built.
InitMergeValues ==
    /\ InitTaskBase
    /\ JoinKeyIdle
    /\ JoinMergeIdle
    /\ ProjectionIdle
    /\ ValueIdle
    /\ mvpc = "index"
    /\ leftStmt \in LeftSources
    /\ rightStmt \in RightSources
    /\ colIndex = <<>>
    /\ outVals = <<>>

Init == InitJoinKey \/ InitJoinMerge

NextJoinKey == JKSig \/ JKInClosed \/ JKRecv \/ JKSend \/ CloseSig \/ Consume

NextJoinMerge ==
    \/ JMStart \/ JMSpawnR \/ JMWait \/ JMRange \/ JMSend \/ JMReturn
    \/ LSig \/ LInClosed \/ LRecv
    \/ RSig \/ RInClosed \/ RRecv
    \/ CloseSig \/ Consume

NextProjection == PRecv \/ PSend \/ PSendSig \/ PInClosed \/ PSig \/ CloseSig \/ Consume

NextValue == VNil \/ VInt \/ VFloat \/ VToString

NextMergeValues == BuildColIndex \/ MakeVals \/ IndexLeft \/ IndexRight

Next == NextJoinKey \/ NextJoinMerge

\* One task of either kind, with its environment.
Spec == Init /\ [][Next]_vars
SpecJoinKey == InitJoinKey /\ [][NextJoinKey]_vars
SpecJoinMerge == InitJoinMerge /\ [][NextJoinMerge]_vars
SpecProjection == InitProjection /\ [][NextProjection]_vars
SpecValue == InitValue /\ [][NextValue]_vars
SpecMergeValues == InitMergeValues /\ [][NextMergeValues]_vars

\* The Go scheduler runs every runnable goroutine; upstream producers, the
\* consumer and whoever closes sigCh from outside are under no obligation.
FairSpecJoinMerge ==
    /\ SpecJoinMerge
    /\ WF_vars(JoinMergeRun)
    /\ WF_vars(LSig \/ LInClosed)
    /\ WF_vars(RSig \/ RInClosed)

\* FairSpecJoinMerge with a consumer that reads whatever is offered.
FairSpecJoinMergeDrained ==
    /\ FairSpecJoinMerge
    /\ WF_vars(Consume)

\* ================================================================ claims
Range(seq) == {seq[n] : n \in 1..Len(seq)}

\* The messages JoinKey has put on its outbound channel so far.
Forwarded == Range(msgOutCh) \cup Range(delivered)

\* C1: whenever JoinKey.Run or JoinMerge.Run has returned, msgOutCh has been
\* closed, and msgOutCh is never closed more than once.
C1_OutChClosedOnceOnReturn ==
    /\ outCloses <= 1
    /\ (jkpc = "done" \/ mpc = "done" \/ ret # "none") => outCloses = 1

\* JoinKey.Run returned on a fatal input after forwarding a message.
C1_Witness ==
    /\ jkpc = "done" /\ ret = "err"
    /\ outCloses = 1
    /\ delivered # <<>>

\* C2: once sigCh is closed and both ingest workers have exited on it (neither
\* saw its input closed), the wait on the ingest barrier can complete, so that
\* Run goes on to return.
C2_IngestBarrierCompletesOnCancel ==
    (/\ SigClosed /\ ~panicked
     /\ lpc = "done" /\ rpc = "done" /\ ~leftClosed /\ ~rightClosed
     /\ mpc = "wait")
        => ENABLED JMWait

\* C3: after an ingest worker met a fatal condition (empty key, wrong body
\* type), JoinMerge.Run returns, and what it returns is a non-nil error
\* (unless the process died of a second close of sigCh, which is C4's matter).
C3_FatalReturnsError ==
    (fatalErr # "nil" /\ ~panicked) ~> (panicked \/ (mpc = "done" /\ ret = "err"))

\* C4: the cancellation signal sigCh of a JoinMerge task is closed at most once.
C4_SigChClosedAtMostOnce == sigCloses <= 1

\* Number of rows with key k received on one side.
KeyCount(recv, k) ==
    Cardinality({n \in 1..Len(recv) : recv[n].kind = "map" /\ recv[n].key = k})

\* C5: in a run with no cancellation and no fatal condition that returned and
\* whose output was drained, every left/right pair of rows with the same key
\* was emitted exactly once, the rows emitted for key k number
\* |left[k]| x |right[k]|, and no row pairs two different keys.
C5_CartesianPerKey ==
    (mpc = "done" /\ msgOutCh = <<>> /\ sigCloses = 0 /\ fatalErr = "nil") =>
        /\ \A k \in JMKeys :
             Cardinality({o \in 1..Len(delivered) :
                            delivered[o].l.key = k /\ delivered[o].r.key = k})
               = KeyCount(leftRecv, k) * KeyCount(rightRecv, k)
        /\ \A a \in 1..Len(leftRecv) : \A b \in 1..Len(rightRecv) :
             Cardinality({o \in 1..Len(delivered) :
                            delivered[o].l = leftRecv[a] /\ delivered[o].r = rightRecv[b]})
               = IF leftRecv[a].key = rightRecv[b].key THEN 1 ELSE 0
        /\ \A o \in 1..Len(delivered) :
             /\ delivered[o].l \in Range(leftRecv)
             /\ delivered[o].r \in Range(rightRecv)

\* Two left and two right rows of one key gave four rows, and a key of the
\* left side that the right side lacks gave none.
C5_Witness ==
    /\ mpc = "done" /\ msgOutCh = <<>> /\ sigCloses = 0 /\ fatalErr = "nil"
    /\ Len(delivered) = 4
    /\ \E k \in DOMAIN lh : k \notin DOMAIN rh /\ Len(lh[k]) = 1

\* C6: with sigCh closed, JoinKey.Run waiting to forward a message is never
\* blocked: it can take a step (and so return) without any consumer.
C6_JoinKeySendCancellable ==
    (SigClosed /\ ~panicked /\ jkpc = "send") => ENABLED JoinKeyRun

\* C7: with sigCh closed, the emission loop of JoinMerge.Run waiting to send a
\* joined row is never blocked: it can take a step without any consumer.
C7_EmissionSendCancellable ==
    (SigClosed /\ ~panicked /\ mpc = "send") => ENABLED JoinMergeRun

\* The ToString() forms of a row's join values, in join-node order.
JoinStrings(m) == [k \in 1..Len(joinNodes) |-> ToString(m.row[joinNodes[k]])]

\* Where the k-th value starts in a key made of vs: after k-1 values and delimiters.
RECURSIVE KeyOffset(_, _)
KeyOffset(vs, k) == IF k = 1 THEN 0 ELSE KeyOffset(vs, k - 1) + Len(vs[k - 1]) + 1

\* key is the strings vs, in order, with exactly one NUL between consecutive ones.
IsNulJoined(key, vs) ==
    /\ Len(key) = IF Len(vs) = 0 THEN 0 ELSE KeyOffset(vs, Len(vs) + 1) - 1
    /\ \A k \in 1..Len(vs) :
         /\ \A p \in 1..Len(vs[k]) : key[KeyOffset(vs, k) + p] = vs[k][p]
         /\ k < Len(vs) => key[KeyOffset(vs, k + 1)] = NUL

\* C8: the key of every forwarded message is the ToString() forms of its join
\* values, in join-node order, with a single NUL between consecutive values;
\* for join nodes [first,last] on row {first:ann,last:lee} it is ann NUL lee.
C8_KeyIsNulJoinedToStrings ==
    \A m \in Forwarded \cup (IF jkpc = "send" THEN {jkCur} ELSE {}) :
        /\ IsNulJoined(m.key, JoinStrings(m))
        /\ (joinNodes = <<"first", "last">>
              /\ m.row["first"] = StrV(ann) /\ m.row["last"] = StrV(lee))
             => m.key = <<"a", "n", "n", NUL, "l", "e", "e">>

\* The row {first:ann,last:lee} was forwarded under join nodes [first,last],
\* and so was a row with an int join value.
C8_Witness ==
    /\ jkpc # "off"
    /\ joinNodes = <<"first", "last">>
    /\ \E m \in Range(delivered) :
         m.row["first"] = StrV(ann) /\ m.row["last"] = StrV(lee)
    /\ \E m \in Range(delivered) : m.row["first"] = IntV(12)

\* C9: every message JoinKey forwards carries a non-empty key.
C9_ForwardedKeyNonEmpty ==
    jkpc # "off" => \A m \in Forwarded : m.key # EmptyString

\* The n-th received message is a row on which some join node failed to evaluate.
EvalFailed(n) == jkSeen[n].kind = "map" /\ ~EvalAllOk(jkSeen[n], joinNodes)

\* C10: a row on which a join node fails to evaluate is not forwarded and gets
\* no key; it does not end Run (Run then is back at its select, or returned nil
\* because the input or sigCh was closed) and JoinKey closes no sigCh; rows
\* after it that evaluate are forwarded.
C10_EvalFailureDropsRow ==
    jkpc # "off" =>
      /\ \A n \in 1..Len(jkSeen) : EvalFailed(n) =>
           /\ jkSeen[n].key = EmptyString
           /\ \A m \in Forwarded : m.n # n
           /\ (jkpc = "send" => jkCur.n # n)
           /\ n = Len(jkSeen) =>
                \/ jkpc = "select" /\ ret = "none" /\ outCloses = 0
                \/ jkpc = "done" /\ ret = "nil" /\ (inClosed \/ SigClosed)
      /\ \A n \in 1..Len(jkSeen) :
           (jkSeen[n].kind = "map" /\ ~EvalFailed(n) /\ (n < Len(jkSeen) \/ jkpc # "send"))
             => \E m \in Forwarded : m.n = n
      /\ sigCloses <= 1

\* A row was dropped for a failed evaluation and the row after it was
\* forwarded and read downstream.
C10_Witness ==
    /\ jkpc = "select"
    /\ Len(jkSeen) = 2
    /\ EvalFailed(1)
    /\ \E m \in Range(delivered) : m.n = 2

\* C11: once JoinKey.Run received a message that is not a SqlDriverMessageMap
\* it has returned a non-nil error and closed msgOutCh, it received and
\* forwarded nothing after it, and every row keyed before it was forwarded as
\* it was keyed.
C11_NonMapInputIsFatal ==
    jkpc # "off" =>
      \A n \in 1..Len(jkSeen) : jkSeen[n].kind = "other" =>
        /\ n = Len(jkSeen)
        /\ jkpc = "done" /\ ret = "err" /\ outCloses = 1
        /\ \A m \in Forwarded : m.n < n
        /\ \A k \in 1..(n - 1) :
             (jkSeen[k].kind = "map" /\ EvalAllOk(jkSeen[k], joinNodes))
               => jkSeen[k] \in Forwarded

\* A row was forwarded and read downstream, then a message of another type ended Run.
C11_Witness ==
    /\ jkpc = "done"
    /\ Len(jkSeen) = 2 /\ jkSeen[2].kind = "other"
    /\ delivered = <<jkSeen[1]>>

\* C12: when JoinKey.Run has returned an error for a non-SqlDriverMessageMap
\* input, sigCh is closed.
C12_NonMapInputClosesSigCh ==
    (jkpc = "done" /\ ret = "err") => SigClosed

\* The rows JoinKey.Run keyed so far.
Keyed == {m \in Range(jkSeen) : m.kind = "map" /\ EvalAllOk(m, joinNodes)}

\* No string of the tuple holds a NUL.
NulFree(vs) == \A k \in 1..Len(vs) : \A p \in 1..Len(vs[k]) : vs[k][p] # NUL

\* C13: under one list of join nodes, two keyed rows have the same composite
\* key exactly when their tuples of NUL-free join-value strings are the same.
C13_KeysDoNotCollide ==
    jkpc # "off" =>
      \A a \in Keyed : \A b \in Keyed :
        (NulFree(JoinStrings(a)) /\ NulFree(JoinStrings(b)))
          => ((a.key = b.key) <=> (JoinStrings(a) = JoinStrings(b)))

\* Two rows whose join values concatenate to the same text got different keys.
C13_Witness ==
    /\ jkpc # "off"
    /\ joinNodes = <<"first", "last">>
    /\ \E a \in Keyed : \E b \in Keyed :
         /\ JoinStrings(a) = <<ann, EmptyString>>
         /\ JoinStrings(b) = <<EmptyString, ann>>
         /\ a.key # b.key

\* The messages the projection handler has built so far: the one of the
\* latest call and the ones that went out.
Built == {o \in {outMsg} \cup Forwarded : o.n >= 1}

\* The guard of col evaluates, and to the boolean false.
GuardIsFalse(mt, col) ==
    /\ col.Guard # NoNode
    /\ EvalNode(mt, col.Guard).ok
    /\ EvalNode(mt, col.Guard).val = BoolV(FALSE)

\* No other column of sql.Columns writes under the alias of column i.
OnlyWriter(c) ==
    \A j \in 1..Len(columns) : j # c => (~columns[j].Star /\ columns[j].As # columns[c].As)

ColBGuarded == Column("b", 0, FALSE, EqZero("a"), Ident("b"))

\* C14: a guarded column that is in the projection and whose expression
\* evaluates is left out of the output context exactly when its guard
\* evaluates to the boolean false (a failed or non-boolean guard keeps it), and
\* when kept it holds the expression's value; for the row {a:1, b:2} and the
\* columns [a, b guarded by a == 0] the output context is {a:1}.
C14_GuardSuppressesOnlyOnFalse ==
    ppc # "off" =>
      \A o \in Built : o.kind = "ctx" =>
        LET mt == pSeen[o.n] IN
        /\ \A c \in 1..Len(columns) :
             LET col == columns[c] IN
             (/\ col.Guard # NoNode /\ ~col.Star /\ col.ParentIndex >= 0
              /\ EvalNode(mt, col.Expr).ok
              /\ OnlyWriter(c))
               => /\ (col.As \notin DOMAIN o.data) <=> GuardIsFalse(mt, col)
                  /\ col.As \in DOMAIN o.data => o.data[col.As] = EvalNode(mt, col.Expr).val
        /\ (/\ columns = <<ColA, ColBGuarded>>
            /\ mt.kind = "map" /\ mt.row["a"] = GoInt(1) /\ mt.row["b"] = GoInt(2))
              => (DOMAIN o.data = {"a"} /\ o.data["a"] = IntV(1))

\* The row {a:1, b:2} was projected on [a, b guarded by a == 0] and sent.
C14_Witness ==
    /\ ppc # "off"
    /\ columns = <<ColA, ColBGuarded>>
    /\ \E o \in Forwarded :
         /\ pSeen[o.n].kind = "map"
         /\ pSeen[o.n].row["a"] = GoInt(1) /\ pSeen[o.n].row["b"] = GoInt(2)
         /\ DOMAIN o.data = {"a"}

\* C15: when every column of sql.Columns has ParentIndex < 0 the output
\* context of an accepted input is empty, whichever of the two bodies it has.
C15_DroppedColumnsWriteNothing ==
    ppc # "off" =>
      \A o \in Built : o.kind = "ctx" =>
        ((\A c \in 1..Len(columns) : columns[c].ParentIndex < 0) => DOMAIN o.data = {})

\* C16: nothing is sent on the outbound channel for an input message of an
\* unknown body type.
C16_UnknownBodySendsNothing ==
    ppc # "off" => \A o \in Forwarded : pSeen[o.n].kind # "other"

\* What went out on msgOutCh, in the order it went out.
Sent == delivered \o msgOutCh

Accepted(n) == pSeen[n].kind \in {"map", "url"}

\* C17: for each accepted input at most one message goes out; the handler
\* returns true exactly when its message went out and false only with sigCh
\* closed; with sigCh closed the pending send can always end; the messages go
\* out in the order of their inputs.
C17_HandlerSendsOnceCancellably ==
    ppc # "off" =>
      /\ \A n \in 1..Len(pSeen) : Accepted(n) =>
           Cardinality({k \in 1..Len(Sent) : Sent[k].n = n}) <= 1
      /\ \A n \in 1..Len(pRet) : Accepted(n) =>
           /\ pRet[n] <=> (\E k \in 1..Len(Sent) : Sent[k].n = n)
           /\ ~pRet[n] => SigClosed
      /\ (ppc = "send" /\ SigClosed) => ENABLED ProjectionRun
      /\ \A j \in 1..Len(Sent) : \A k \in 1..Len(Sent) : j < k => Sent[j].n < Sent[k].n

\* Two accepted inputs: the first output was read downstream, the second call
\* found its send blocked and returned false once sigCh was closed.
C17_Witness ==
    /\ Len(pSeen) = 2 /\ Accepted(1) /\ Accepted(2)
    /\ pRet = <<TRUE, FALSE>>
    /\ Len(delivered) = 1 /\ delivered[1].n = 1

AllStar == \A c \in 1..Len(columns) : columns[c].Star

\* The context holds the row's keys, each with the very value the row holds.
HoldsRow(data, mt) ==
    /\ DOMAIN data = RowKeys(mt)
    /\ \A k \in RowKeys(mt) :
         IF mt.kind = "map"
         THEN mt.row[k].go = "int64" /\ data[k] = IntV(mt.row[k].n)
         ELSE data[k] = mt.row[k]

\* The context holds the row's keys, each with the row's value as NewValue
\* lifts it (a SqlDriverMessageMap) or as it is (a ContextUrlValues).
HoldsLiftedRow(data, mt) ==
    /\ DOMAIN data = RowKeys(mt)
    /\ \A k \in RowKeys(mt) :
         data[k] = IF mt.kind = "map" THEN NewValue(mt.row[k]) ELSE mt.row[k]

\* C18 as stated: when every column of sql.Columns is a Star column the
\* output context holds exactly the (key, value) pairs of the input row.
C18_StarIsIdentity_Original ==
    ppc # "off" =>
      \A o \in Built : o.kind = "ctx" => (AllStar => HoldsRow(o.data, pSeen[o.n]))

\* C18: when every column of sql.Columns is a Star column and at least one of
\* them has ParentIndex >= 0 and no guard that evaluates to false, the output
\* is a write-context of its own that holds exactly the keys of the input row,
\* each with the row's value as NewValue lifts it (NilValue for a raw type
\* NewValue does not accept); the input message is as it was received.
C18_StarIsIdentity ==
    ppc # "off" =>
      \A o \in Built : o.kind = "ctx" =>
        LET mt == pSeen[o.n] IN
        (/\ AllStar
         /\ \E c \in 1..Len(columns) :
              columns[c].ParentIndex >= 0 /\ ~GuardIsFalse(mt, columns[c]))
          => (HoldsLiftedRow(o.data, mt) /\ mt \in PInputs(o.n))

\* A row with an int64 and a []byte went through one Star column.
C18_Witness ==
    /\ ppc # "off"
    /\ columns = <<Column("", 0, TRUE, NoNode, NoNode)>>
    /\ \E o \in Forwarded :
         /\ pSeen[o.n].kind = "map"
         /\ pSeen[o.n].row["a"] = GoInt(1) /\ pSeen[o.n].row["b"] = GoBytes
         /\ o.data["a"] = IntV(1) /\ o.data["b"] = NilV

\* The empty forms the documentation gives a nil meaning: the empty string,
\* string list and map, the zero time, the nil struct and NilValue.
DocumentedEmpty(m) ==
    \/ m.type \in {"string", "strings", "mapint"} /\ m.s = <<>>
    \/ m.type = "time" /\ m = ZeroTime
    \/ m.type = "struct" /\ m.n = 0
    \/ m.type = "nil"

\* C19: Nil() is true exactly on the documented empty form of each variant:
\* the empty string, string list and map, the zero time, the nil struct
\* singleton and NilValue; false on numbers, ints, bools, non-empty values and
\* ErrorValues.
C19_NilOnDocumentedEmpty ==
    ("Nil" \in DOMAIN obs /\ vrecv.type # "slice")
      => (obs["Nil"] <=> DocumentedEmpty(vrecv))

\* The Unix nanosecond count of a time, as a number.
NanoCount(m) == BigAdd(TimesE9(m.s), FromNat(m.n))

\* C20: for every time, Int() is its Unix nanosecond count divided by
\* 1,000,000 with integer division, Float() has the same value, ToString() is
\* the base-10 text of Int(); for 1.234 s after the epoch they are 1234 and "1234".
C20_TimeIntIsUnixMillis ==
    vrecv.type = "time" =>
      /\ "Int" \in DOMAIN obs =>
           /\ obs["Int"] = QuoE6(NanoCount(vrecv))
           /\ vrecv = TimeV(Big(FALSE, <<1>>), 234000000) => obs["Int"] = Big(FALSE, <<234, 1>>)
      /\ "Float" \in DOMAIN obs => obs["Float"] = QuoE6(NanoCount(vrecv))
      /\ "ToString" \in DOMAIN obs =>
           /\ obs["ToString"] = FormatInt64(QuoE6(NanoCount(vrecv)))
           /\ vrecv = TimeV(Big(FALSE, <<1>>), 234000000) => obs["ToString"] = <<"1", "2", "3", "4">>

\* C21: once JoinMerge.Run has left wg.Wait() (and so before any joined row is
\* sent) both input channels have been seen closed, both ingest workers have
\* finished, and every row received on either side is in its hash table.
C21_MaterialisedBeforeEmission ==
    (mpc \in {"range", "send", "done"} \/ (mpc # "off" /\ Sent # <<>>)) =>
      /\ leftClosed /\ rightClosed
      /\ lpc = "done" /\ rpc = "done"
      /\ \A n \in 1..Len(leftRecv) :
           leftRecv[n].key \in DOMAIN lh /\ leftRecv[n] \in Range(lh[leftRecv[n].key])
      /\ \A n \in 1..Len(rightRecv) :
           rightRecv[n].key \in DOMAIN rh /\ rightRecv[n] \in Range(rh[rightRecv[n].key])

\* A joined row is out while rows of both sides sit in the tables.
C21_Witness ==
    /\ mpc = "send" /\ Sent # <<>>
    /\ Len(leftRecv) >= 2 /\ Len(rightRecv) >= 2

\* Every pair of a left and a right row with the same key is among the rows sent.
AllPairsSent ==
    \A a \in 1..Len(leftRecv) : \A b \in 1..Len(rightRecv) :
      leftRecv[a].key = rightRecv[b].key =>
        \E o \in 1..Len(Sent) : Sent[o].l = leftRecv[a] /\ Sent[o].r = rightRecv[b]

\* C22: in a run where both inputs get closed, the consumer keeps reading,
\* sigCh is never closed and no worker meets a fatal condition, Run eventually
\* returns nil with every joined row sent and msgOutCh closed.
C22_NormalTermination ==
    ([](sigCloses = 0) /\ [](fatalErr = "nil"))
      => <>(mpc = "done" /\ ret = "nil" /\ outCloses = 1 /\ AllPairsSent)

\* A run without cancellation or fatal condition returned nil and its rows were read.
C22_Witness ==
    /\ mpc = "done" /\ ret = "nil" /\ outCloses = 1
    /\ sigCloses = 0 /\ fatalErr = "nil"
    /\ msgOutCh = <<>> /\ Len(delivered) >= 2

\* C23: lh changes only in a step of the running left worker and rh only in a
\* step of the running right worker, both before Run has left wg.Wait(); from
\* the step in which Run leaves wg.Wait() and reads the tables on, no worker
\* runs and no table changes.
C23_TablesSingleWriter ==
    [][ /\ lh' # lh => (lpc = "run" /\ rh' = rh /\ mpc \in {"spawnR", "wait"})
        /\ rh' # rh => (rpc = "run" /\ lh' = lh /\ mpc = "wait")
        /\ (mpc \in {"range", "send"} \/ mpc' \in {"range", "send"})
             => (lpc # "run" /\ rpc # "run" /\ lh' = lh /\ rh' = rh) ]_vars

\* Run is in its emission loop over tables both workers filled.
C23_Witness ==
    /\ mpc = "send"
    /\ DOMAIN lh # {} /\ DOMAIN rh # {}
    /\ lpc = "done" /\ rpc = "done"

\* The rows whose join nodes all evaluated, in the order JoinKey.Run received them.
KeyedInOrder == SelectSeq(jkSeen, LAMBDA m : m.kind = "map" /\ EvalAllOk(m, joinNodes))

\* C24: what JoinKey.Run has put on its outbound channel, followed by the row
\* it is about to send, is exactly the sequence of received rows whose join
\* nodes all evaluated, in the order they were received.
C24_JoinKeyPreservesOrder ==
    jkpc # "off" =>
      Sent \o (IF jkpc = "send" THEN <<jkCur>> ELSE <<>>) = KeyedInOrder

\* Two rows with different keys were forwarded and read in the order they came.
C24_Witness ==
    /\ jkpc # "off"
    /\ Len(jkSeen) = 2 /\ delivered = jkSeen
    /\ jkSeen[1].key # jkSeen[2].key

\* The rows of key k among the received messages, in arrival order.
OfKey(recv, k) == SelectSeq(recv, LAMBDA m : m.kind = "map" /\ m.key = k)

\* The j-th pair of the left-major product of L and R.
LeftMajorPair(L, R, j) == <<L[((j - 1) \div Len(R)) + 1], R[((j - 1) % Len(R)) + 1]>>

\* C25: each table holds, per key, the rows of that key in the order they
\* arrived on its side; the rows sent for one key are the left-major product
\* of the two lists, in order, and no row of another key comes between them.
C25_ArrivalOrderWithinKey ==
    mpc # "off" =>
      /\ \A k \in DOMAIN lh : lh[k] = OfKey(leftRecv, k)
      /\ \A k \in DOMAIN rh : rh[k] = OfKey(rightRecv, k)
      /\ \A k \in JMKeys :
           LET Ek == SelectSeq(Sent, LAMBDA o : o.l.key = k)
           IN  \A j \in 1..Len(Ek) :
                 /\ j <= Len(OfKey(leftRecv, k)) * Len(OfKey(rightRecv, k))
                 /\ <<Ek[j].l, Ek[j].r>>
                      = LeftMajorPair(OfKey(leftRecv, k), OfKey(rightRecv, k), j)
      /\ \A a \in 1..Len(Sent) : \A c \in 1..Len(Sent) :
           (a < c /\ Sent[a].l.key = Sent[c].l.key) =>
             \A b \in a..c : Sent[b].l.key = Sent[a].l.key

\* Two left and two right rows of one key and one pair of another key: five rows read.
C25_Witness ==
    /\ mpc = "done" /\ Len(delivered) = 5
    /\ \E k \in DOMAIN lh : Len(lh[k]) = 2 /\ k \in DOMAIN rh /\ Len(rh[k]) = 2

\* The columns of both sources in the order valIndexing visits them, each with
\* the source row's value at its SourceIndex.
LayoutWrites ==
    [j \in 1..Len(leftStmt.Columns) |->
        [pidx |-> leftStmt.Columns[j].ParentIndex,
         v |-> LeftValues[leftStmt.Columns[j].SourceIndex + 1]]]
    \o [j \in 1..Len(rightStmt.Columns) |->
        [pidx |-> rightStmt.Columns[j].ParentIndex,
         v |-> RightValues[rightStmt.Columns[j].SourceIndex + 1]]]

\* The columns that map to position p of the output row.
WritersOf(p) == {j \in 1..Len(LayoutWrites) : LayoutWrites[j].pidx = p}

\* C26: in a built output row, whose length is len(colIndex), each position p
\* holds the source value (at SourceIndex) of the last column, left columns
\* first and right columns after them, whose ParentIndex is p; a position no
\* column maps to is empty; columns with ParentIndex < 0 or >= len(out) change
\* nothing, and the row is built all the same.
C26_PositionalReindexing ==
    mvpc = "done" =>
      /\ Len(outVals) = Cardinality(DOMAIN colIndex)
      /\ \A p \in 0..(Len(outVals) - 1) :
           IF WritersOf(p) = {} THEN outVals[p + 1] = NilDriverValue
           ELSE \E j \in WritersOf(p) :
                  /\ \A o \in WritersOf(p) : o <= j
                  /\ outVals[p + 1] = LayoutWrites[j].v

\* A row built from a left column, a dropped left column and a right column
\* whose ParentIndex lies beyond the slice.
C26_Witness ==
    /\ mvpc = "done"
    /\ Len(leftStmt.Columns) = 2 /\ Len(rightStmt.Columns) = 1
    /\ leftStmt.Columns[1] = JoinColumn(<<"x">>, 1, 0)
    /\ leftStmt.Columns[2].ParentIndex = -1
    /\ rightStmt.Columns[1].ParentIndex >= Len(outVals)
    /\ outVals[1] = "l1"

\* The columns of both sources that are not dropped.
KeptColumns == SelectSeq(LayoutWrites, LAMBDA w : w.pidx >= 0)

\* The ParentIndex values of the kept columns are 0..n-1, each used once.
Dense ==
    /\ \A p \in 0..(Len(KeptColumns) - 1) : Cardinality(WritersOf(p)) = 1
    /\ \A j \in 1..Len(KeptColumns) : KeptColumns[j].pidx < Len(KeptColumns)

\* C27: when the ParentIndex values of the kept columns of both sides are
\* dense, the output row is long enough and each of its n positions is filled.
C27_DenseLayoutFillsRow ==
    (mvpc = "done" /\ Dense) =>
      /\ Len(outVals) >= Len(KeptColumns)
      /\ \A p \in 1..Len(KeptColumns) : outVals[p] # NilDriverValue

====
